---- MODULE Spec2Model ----
(***************************************************************************)
(* A model of netstruct.py: the NetStruct format compiler, pack, the       *)
(* one-shot unpack and the iter_unpack generator.                          *)
(*                                                                         *)
(* Byte strings are sequences of integers 0..255.  Format strings are      *)
(* sequences of one-character strings.  A Python value is a record         *)
(* [t, i, s]: t = "int" carries i, t = "str" carries the byte string s.    *)
(* The value-level model of struct.pack / struct.unpack covers the pad     *)
(* code, the integer codes, 'c' and 's'; sizes are modelled for all codes. *)
(***************************************************************************)
EXTENDS Integers, Sequences, FiniteSets, TLC

\* ------------------------------------------------------------------------
\* Bounds of the model
\* ------------------------------------------------------------------------
\* longest byte stream a caller delivers to one session
MaxStream == 4
\* longest chunk handed over by one send()
MaxChunk == 2
\* longest string value handed to pack
MaxStr == 2
\* largest number of surplus or missing values handed to pack
MaxExtra == 1
\* longest format string handed to NetStruct() character by character
MaxFormat == 3
\* most calls made on each of two sessions that share a NetStruct
MaxCalls == 3

\* ------------------------------------------------------------------------
\* Python helpers
\* ------------------------------------------------------------------------
Min(a, b) == IF a < b THEN a ELSE b

Max(a, b) == IF a < b THEN b ELSE a

\* the bound of a Python slice, normalised as CPython does
PyBound(len, k) == IF k < 0 THEN Max(0, k + len) ELSE Min(k, len)

\* s[:k]
PySliceTo(s, k) == SubSeq(s, 1, PyBound(Len(s), k))

\* s[k:]
PySliceFrom(s, k) == SubSeq(s, PyBound(Len(s), k) + 1, Len(s))

IntVal(n) == [t |-> "int", i |-> n, s |-> <<>>]

StrVal(b) == [t |-> "str", i |-> 0, s |-> b]

Pow256(w) == IF w = 0 THEN 1 ELSE IF w = 1 THEN 256 ELSE IF w = 2 THEN 65536 ELSE 16777216

\* ------------------------------------------------------------------------
\* struct.Struct, as used by netstruct.py
\* ------------------------------------------------------------------------
Digits == {"0", "1", "2", "3", "4", "5", "6", "7", "8", "9"}

DigitVal(c) ==
    CASE c = "0" -> 0 [] c = "1" -> 1 [] c = "2" -> 2 [] c = "3" -> 3
      [] c = "4" -> 4 [] c = "5" -> 5 [] c = "6" -> 6 [] c = "7" -> 7
      [] c = "8" -> 8 [] c = "9" -> 9

Whitespace == {" ", "\t", "\r", "\n"}

ByteOrderChars == {"@", "=", "<", ">", "!"}

SignedCodes == {"b", "h", "i", "l", "q"}

UnsignedCodes == {"B", "H", "I", "L", "Q"}

\* the codes struct accepts in a standard-size byte order
StructCodes == SignedCodes \cup UnsignedCodes \cup {"x", "c", "?", "f", "d", "s", "p"}

CodeSize(c) ==
    CASE c \in {"x", "c", "b", "B", "?", "s", "p"} -> 1
      [] c \in {"h", "H"} -> 2
      [] c \in {"i", "I", "l", "L", "f"} -> 4
      [] c \in {"q", "Q", "d"} -> 8

\* the items (code, repeat count) of a struct format; q = -1: no count read
RECURSIVE StructItems(_, _, _)
StructItems(f, i, q) ==
    IF i > Len(f)
    THEN [ok |-> q = -1, items |-> <<>>]
    ELSE LET c == f[i] IN
         IF c \in Digits
         THEN StructItems(f, i + 1, (IF q = -1 THEN 0 ELSE q) * 10 + DigitVal(c))
         ELSE IF c \in Whitespace
         THEN IF q = -1 THEN StructItems(f, i + 1, -1) ELSE [ok |-> FALSE, items |-> <<>>]
         ELSE IF c \in StructCodes
         THEN LET rest == StructItems(f, i + 1, -1) IN
              [ok |-> rest.ok,
               items |-> <<[code |-> c, rep |-> IF q = -1 THEN 1 ELSE q]>> \o rest.items]
         ELSE [ok |-> FALSE, items |-> <<>>]

RECURSIVE ItemsSize(_)
ItemsSize(items) ==
    IF items = <<>> THEN 0
    ELSE CodeSize(items[1].code) * items[1].rep + ItemsSize(Tail(items))

\* the number of values an item list packs or unpacks
RECURSIVE ItemsValues(_)
ItemsValues(items) ==
    IF items = <<>> THEN 0
    ELSE (CASE items[1].code = "x" -> 0
            [] items[1].code \in {"s", "p"} -> 1
            [] OTHER -> items[1].rep) + ItemsValues(Tail(items))

\* _Struct(byte_order + segment)
Struct(order, segment) ==
    LET p == StructItems(segment, 1, -1) IN
    [ok |-> p.ok, order |-> order, items |-> p.items,
     size |-> IF p.ok THEN ItemsSize(p.items) ELSE 0]

\* the w bytes of the integer n (0 <= n < 256^w), most significant first
RECURSIVE BigEndian(_, _)
BigEndian(n, w) ==
    IF w = 0 THEN <<>> ELSE BigEndian(n \div 256, w - 1) \o <<n % 256>>

Reverse(s) == [k \in 1..Len(s) |-> s[Len(s) + 1 - k]]

\* the bytes in the order the struct's byte order writes them
Ordered(order, bytes) == IF order = "<" THEN Reverse(bytes) ELSE bytes

EncodeInt(order, code, n) ==
    LET w == CodeSize(code) IN
    Ordered(order, BigEndian(IF n < 0 THEN n + Pow256(w) ELSE n, w))

IntInRange(code, n) ==
    LET w == CodeSize(code) IN
    IF code \in SignedCodes
    THEN 2 * n >= -Pow256(w) /\ 2 * n < Pow256(w)
    ELSE n >= 0 /\ n < Pow256(w)

RECURSIVE FromBigEndian(_)
FromBigEndian(bytes) ==
    IF bytes = <<>> THEN 0
    ELSE FromBigEndian(SubSeq(bytes, 1, Len(bytes) - 1)) * 256 + bytes[Len(bytes)]

DecodeInt(order, code, bytes) ==
    LET u == FromBigEndian(Ordered(order, bytes)) IN
    IF code \in SignedCodes /\ 2 * u >= Pow256(Len(bytes)) THEN u - Pow256(Len(bytes)) ELSE u

\* b padded with zero bytes, or cut, to n bytes ('s' code)
FixedStr(b, n) == [k \in 1..n |-> IF k <= Len(b) THEN b[k] ELSE 0]

\* the item list with every repeat count written out ('s' keeps its length)
RECURSIVE Expand(_)
Expand(items) ==
    IF items = <<>> THEN <<>>
    ELSE LET it == items[1] IN
         IF it.code \in {"s", "p"} THEN <<it>> \o Expand(Tail(items))
         ELSE IF it.rep = 0 THEN Expand(Tail(items))
         ELSE <<[code |-> it.code, rep |-> 1]>>
              \o Expand(<<[code |-> it.code, rep |-> it.rep - 1]>> \o Tail(items))

\* struct.pack over written-out items: the bytes, or ok = FALSE (struct.error)
RECURSIVE PackItems(_, _, _)
PackItems(order, items, vals) ==
    IF items = <<>>
    THEN [ok |-> vals = <<>>, bytes |-> <<>>]
    ELSE LET it == items[1] IN
         IF it.code = "x"
         THEN LET r == PackItems(order, Tail(items), vals) IN
              [ok |-> r.ok, bytes |-> <<0>> \o r.bytes]
         ELSE IF vals = <<>>
         THEN [ok |-> FALSE, bytes |-> <<>>]
         ELSE LET v == vals[1]
                  r == PackItems(order, Tail(items), Tail(vals)) IN
              IF it.code = "s"
              THEN [ok |-> r.ok /\ v.t = "str", bytes |-> FixedStr(v.s, it.rep) \o r.bytes]
              ELSE IF it.code = "c"
              THEN [ok |-> r.ok /\ v.t = "str" /\ Len(v.s) = 1, bytes |-> v.s \o r.bytes]
              ELSE IF v.t = "int" /\ IntInRange(it.code, v.i)
              THEN [ok |-> r.ok, bytes |-> EncodeInt(order, it.code, v.i) \o r.bytes]
              ELSE [ok |-> FALSE, bytes |-> <<>>]

\* struct.pack(*vals)
StructPack(st, vals) == PackItems(st.order, Expand(st.items), vals)

\* struct.unpack over written-out items; bytes holds exactly the struct's size
RECURSIVE UnpackItems(_, _, _)
UnpackItems(order, items, bytes) ==
    IF items = <<>> THEN <<>>
    ELSE LET it == items[1]
             w == IF it.code = "s" THEN it.rep ELSE CodeSize(it.code)
             head == SubSeq(bytes, 1, w)
             rest == UnpackItems(order, Tail(items), SubSeq(bytes, w + 1, Len(bytes))) IN
         IF it.code = "x" THEN rest
         ELSE IF it.code \in {"s", "c"} THEN <<StrVal(head)>> \o rest
         ELSE <<IntVal(DecodeInt(order, it.code, head))>> \o rest

\* struct.unpack(bytes)
StructUnpack(st, bytes) == UnpackItems(st.order, Expand(st.items), bytes)

\* ------------------------------------------------------------------------
\* NetStruct.__init__ and _count
\* ------------------------------------------------------------------------
\* _count(format): count >= 0, or -1 for error("bad char in struct format")
RECURSIVE CountFrom(_, _, _, _)
CountFrom(f, i, q, count) ==
    IF i > Len(f) THEN count
    ELSE LET c == f[i] IN
         IF c \in Digits
         THEN CountFrom(f, i + 1, (IF q = -1 THEN 0 ELSE q) * 10 + DigitVal(c), count)
         ELSE IF c \in Whitespace
         THEN IF q # -1 THEN -1 ELSE CountFrom(f, i + 1, q, count)
         ELSE IF c \in {"p", "s"}
         THEN CountFrom(f, i + 1, -1, count + 1)
         ELSE IF c \in {"x", "c", "b", "B", "?", "h", "H", "i", "I", "l", "L",
                        "q", "Q", "f", "d", "P"}
         THEN CountFrom(f, i + 1, -1, count + (IF q = -1 THEN 1 ELSE q))
         ELSE -1

_count(format) ==
    CountFrom(IF format # <<>> /\ format[1] \in ByteOrderChars THEN Tail(format) ELSE format,
              1, -1, 0)

\* the index of the first c in s, 0 when there is none
RECURSIVE Find(_, _, _)
Find(s, c, i) == IF i > Len(s) THEN 0 ELSE IF s[i] = c THEN i ELSE Find(s, c, i + 1)

\* format.partition(b"$")
Partition(format) ==
    LET k == Find(format, "$", 1) IN
    IF k = 0 THEN [segment |-> format, sep |-> FALSE, rest |-> <<>>]
    ELSE [segment |-> SubSeq(format, 1, k - 1), sep |-> TRUE,
          rest |-> SubSeq(format, k + 1, Len(format))]

\* b"$$" in format
HasDoubleDollar(format) ==
    \E k \in 1..(Len(format) - 1) : format[k] = "$" /\ format[k + 1] = "$"

\* a set of length codes that lets a float through
LengthCodesWithFloat == {"b", "B", "h", "H", "i", "I", "l", "L", "q", "Q", "P", "f"}

LengthCodes == {"b", "B", "h", "H", "i", "I", "l", "L", "q", "Q", "P"}

\* the while loop of __init__: the pairs, or ok = FALSE for struct.error
RECURSIVE CompileLoop(_, _)
CompileLoop(order, format) ==
    IF format = <<>> THEN [ok |-> TRUE, pairs |-> <<>>]
    ELSE LET p == Partition(format)
             st == Struct(order, p.segment)
             n == _count(p.segment) IN
         IF p.sep /\ (p.segment = <<>> \/ p.segment[Len(p.segment)] \notin LengthCodes)
         THEN [ok |-> FALSE, pairs |-> <<>>]
         ELSE IF ~st.ok \/ n = -1
         THEN [ok |-> FALSE, pairs |-> <<>>]
         ELSE LET rest == CompileLoop(order, p.rest) IN
              [ok |-> rest.ok,
               pairs |-> IF rest.ok
                         THEN <<[st |-> st, count |-> n, sep |-> p.sep]>> \o rest.pairs
                         ELSE <<>>]

\* an accumulation that misses the last pair
RECURSIVE SumSizesButLast(_)
SumSizesButLast(pairs) ==
    IF Len(pairs) <= 1 THEN 0 ELSE pairs[1].st.size + SumSizesButLast(Tail(pairs))

RECURSIVE SumSizes(_)
SumSizes(pairs) == IF pairs = <<>> THEN 0 ELSE pairs[1].st.size + SumSizes(Tail(pairs))

Failed(kind) == [status |-> kind, pairs |-> <<>>, minsize |-> 0, initsize |-> 0]

\* NetStruct(format); format is [kind, chars]: kind "bytes", "text" or "other",
\* chars its characters (an object that is falsy has chars = <<>>)
NetStruct(format) ==
    IF format.chars = <<>>
    THEN [status |-> "ok", pairs |-> <<>>, minsize |-> 0, initsize |-> 0]
    ELSE IF format.kind # "bytes"
    THEN Failed("TypeError")
    ELSE IF HasDoubleDollar(format.chars)
    THEN Failed("error")
    ELSE LET f == format.chars
             stripped == f[1] \in ByteOrderChars
             order == IF stripped THEN f[1] ELSE "!"
             c == CompileLoop(order, IF stripped THEN Tail(f) ELSE f) IN
         IF ~c.ok THEN Failed("error")
         ELSE IF c.pairs = <<>> THEN Failed("IndexError")
         ELSE [status |-> "ok", pairs |-> c.pairs, minsize |-> SumSizes(c.pairs),
               initsize |-> c.pairs[1].st.size]

Bytes(chars) == [kind |-> "bytes", chars |-> chars]

\* ------------------------------------------------------------------------
\* NetStruct.pack
\* ------------------------------------------------------------------------
PackFailed(kind) == [status |-> kind, bytes |-> <<>>]

\* a length field that counts a terminator
StringLengthPlusOne(v) == Len(v.s) + 1

\* len(data[count-1])
StringLength(v) == Len(v.s)

\* the for loop of pack over the pairs not yet packed
RECURSIVE PackLoop(_, _)
PackLoop(pairs, data) ==
    IF pairs = <<>> THEN [status |-> "ok", bytes |-> <<>>]
    ELSE LET p == pairs[1]
             k == IF p.count - 1 < 0 THEN p.count - 1 + Len(data) ELSE p.count - 1 IN
         IF p.sep
         THEN IF k < 0 \/ k >= Len(data) THEN PackFailed("IndexError")
              ELSE IF data[k + 1].t # "str" THEN PackFailed("TypeError")
              ELSE LET head == StructPack(p.st, PySliceTo(data, p.count - 1)
                                                 \o <<IntVal(StringLength(data[k + 1]))>>)
                       rest == PackLoop(Tail(pairs), PySliceFrom(data, p.count)) IN
                   IF ~head.ok THEN PackFailed("error")
                   ELSE IF rest.status # "ok" THEN rest
                   ELSE [status |-> "ok", bytes |-> head.bytes \o data[k + 1].s \o rest.bytes]
         ELSE LET head == StructPack(p.st, PySliceTo(data, p.count))
                  rest == PackLoop(Tail(pairs), PySliceFrom(data, p.count)) IN
              IF ~head.ok THEN PackFailed("error")
              ELSE IF rest.status # "ok" THEN rest
              ELSE [status |-> "ok", bytes |-> head.bytes \o rest.bytes]

\* self.pack(*data)
Pack(ns, data) == PackLoop(ns.pairs, data)

\* ------------------------------------------------------------------------
\* NetStruct.iter_unpack: the generator, run from one suspension to the next
\* ------------------------------------------------------------------------
NoOut == [k |-> "none", n |-> 0, vals |-> <<>>, bytes |-> <<>>]

NeedMore(n) == [k |-> "need", n |-> n, vals |-> <<>>, bytes |-> <<>>]

Done(vals) == [k |-> "done", n |-> 0, vals |-> vals, bytes |-> <<>>]

Leftover(bytes) == [k |-> "left", n |-> 0, vals |-> <<>>, bytes |-> bytes]

Raised(kind) == [k |-> kind, n |-> 0, vals |-> <<>>, bytes |-> <<>>]

\* the generator's frame: where it is suspended, its locals, what it yielded,
\* the bytes it has sliced off data so far and the values it has popped as
\* string lengths so far
Frame(pc, idx, needed, data, result, out, consumed, lengths) ==
    [pc |-> pc, idx |-> idx, needed |-> needed, data |-> data, result |-> result,
     out |-> out, consumed |-> consumed, lengths |-> lengths]

\* a while test that also suspends when exactly enough bytes are there
LackingOrEqual(n, d) == n >= Len(d)

\* the while test: needed > len(data)
Lacking(n, d) == n > Len(d)

\* a yield that reports the phase's size without the bytes already held
ShortfallOfEmpty(n, d) == n

\* the yielded number: needed - len(data)
Shortfall(n, d) == n - Len(d)

\* a receive that keeps only the new bytes
ReceivedAlone(d, chunk) == IF chunk # <<>> THEN chunk ELSE d

\* a receive that puts the new bytes in front of the held ones
ReceivedInFront(d, chunk) == IF chunk # <<>> THEN chunk \o d ELSE d

\* a receive that forgets the held bytes when nothing new arrives
ReceivedOrCleared(d, chunk) == IF chunk # <<>> THEN d \o chunk ELSE <<>>

\* new_data arrives at a yield inside a while loop
Received(d, chunk) == IF chunk # <<>> THEN d \o chunk ELSE d

RECURSIVE RunFixed(_, _, _)
RECURSIVE RunString(_, _)
\* the first while loop of pair f.idx, from its needed = struct.size
RunFixed(pairs, f, i) ==
    IF i > Len(pairs)
    THEN [f EXCEPT !.pc = "done", !.idx = i, !.out = Done(f.result)]
    ELSE LET p == pairs[i]
             size == p.st.size IN
         IF Lacking(size, f.data)
         THEN [f EXCEPT !.pc = "fixed", !.idx = i, !.needed = size,
                        !.out = NeedMore(Shortfall(size, f.data))]
         ELSE LET taken == PySliceTo(f.data, size)
                  result2 == f.result \o StructUnpack(p.st, taken)
                  g == [f EXCEPT !.idx = i, !.needed = size,
                                 !.data = PySliceFrom(f.data, size),
                                 !.result = result2,
                                 !.consumed = f.consumed \o taken] IN
              IF ~p.sep
              THEN RunFixed(pairs, g, i + 1)
              ELSE IF result2 = <<>>
              THEN [g EXCEPT !.pc = "spent", !.out = Raised("IndexError")]
              ELSE LET last == result2[Len(result2)]
                       h == [g EXCEPT !.result = SubSeq(result2, 1, Len(result2) - 1)] IN
                   IF last.t # "int"
                   THEN [h EXCEPT !.pc = "spent", !.out = Raised("TypeError")]
                   ELSE RunString(pairs, [h EXCEPT !.needed = last.i,
                                                   !.lengths = Append(h.lengths, last.i)])

\* the second while loop of pair f.idx, from its test
RunString(pairs, f) ==
    IF Lacking(f.needed, f.data)
    THEN [f EXCEPT !.pc = "string", !.out = NeedMore(Shortfall(f.needed, f.data))]
    ELSE LET taken == PySliceTo(f.data, f.needed) IN
         RunFixed(pairs,
                  [f EXCEPT !.data = PySliceFrom(f.data, f.needed),
                            !.result = Append(f.result, StrVal(taken)),
                            !.consumed = f.consumed \o taken],
                  f.idx + 1)

\* a generator that yields its result again on the call after it yielded it
ResumeRedone(pairs, f, sent, chunk) ==
    CASE f.pc = "new" ->
            IF sent
            THEN [f EXCEPT !.out = Raised("TypeError")]
            ELSE RunFixed(pairs, f, 1)
      [] f.pc = "fixed" ->
            RunFixed(pairs, [f EXCEPT !.data = Received(f.data, chunk)], f.idx)
      [] f.pc = "string" ->
            RunString(pairs, [f EXCEPT !.data = Received(f.data, chunk)])
      [] f.pc = "done" ->
            IF f.out.k = "done" /\ f.data # <<>>
            THEN [f EXCEPT !.data = <<>>, !.out = Done(f.result)]
            ELSE [f EXCEPT !.pc = "left", !.out = Leftover(f.data)]
      [] f.pc = "left" ->
            [f EXCEPT !.pc = "spent", !.out = Raised("StopIteration")]
      [] f.pc = "spent" ->
            [f EXCEPT !.out = Raised("StopIteration")]

\* one call on the generator in frame f: next() is sent = FALSE with
\* chunk = <<>>, send(chunk) is sent = TRUE
Resume(pairs, f, sent, chunk) ==
    CASE f.pc = "new" ->
            IF sent
            THEN [f EXCEPT !.out = Raised("TypeError")]
            ELSE RunFixed(pairs, f, 1)
      [] f.pc = "fixed" ->
            RunFixed(pairs, [f EXCEPT !.data = Received(f.data, chunk)], f.idx)
      [] f.pc = "string" ->
            RunString(pairs, [f EXCEPT !.data = Received(f.data, chunk)])
      [] f.pc = "done" ->
            [f EXCEPT !.pc = "left", !.out = Leftover(f.data)]
      [] f.pc = "left" ->
            [f EXCEPT !.pc = "spent", !.out = Raised("StopIteration")]
      [] f.pc = "spent" ->
            [f EXCEPT !.out = Raised("StopIteration")]

\* self.iter_unpack(data)
IterUnpack(data) == Frame("new", 0, 0, data, <<>>, NoOut, <<>>, <<>>)

\* an unpack that hands out what was decoded before the bytes ran out
UnpackPartial(ns, data) ==
    LET f == Resume(ns.pairs, IterUnpack(data), FALSE, <<>>) IN
    IF f.out.k \in {"need", "done"} THEN [status |-> "ok", vals |-> f.result]
    ELSE [status |-> f.out.k, vals |-> <<>>]

\* self.unpack(data): the value list, or status "error"
Unpack(ns, data) ==
    LET f == Resume(ns.pairs, IterUnpack(data), FALSE, <<>>) IN
    IF f.out.k = "need" THEN [status |-> "error", vals |-> <<>>]
    ELSE IF f.out.k = "done" THEN [status |-> "ok", vals |-> f.out.vals]
    ELSE [status |-> f.out.k, vals |-> <<>>]

\* ------------------------------------------------------------------------
\* State
\* ------------------------------------------------------------------------
VARIABLES
    fmt,        \* the format handed to NetStruct()
    ns,         \* the NetStruct object: status, _pairs, _minsize, _initsize
    pc,         \* where the generator is: "none" (not created), "new", "fixed",
                \* "string", "done", "left", "spent"
    idx,        \* the pair the for loop of iter_unpack is at
    needed,     \* local needed
    data,       \* local data
    result,     \* local result
    out,        \* what the last next() / send() returned or raised
    consumed,   \* the bytes sliced off data so far, in order
    lengths,    \* the values popped as string lengths so far, in order
    stream,     \* the bytes the caller has for this session
    pending,    \* the part of stream not handed over yet
    dropped,    \* the bytes handed to a send() that returned without storing them
    call,       \* the last call made on the session: its name and its bytes
    sessions,   \* the generators created from one NetStruct side by side, each
                \* with the calls made on it and what they returned
    turns,      \* which of them was called last, and how often the caller
                \* went from one to the other (counted up to 2)
    args,       \* the values handed to pack
    packed,     \* what pack returned or raised
    buf,        \* the buffer handed to unpack
    unpacked    \* what unpack returned or raised

sessionVars ==
    <<pc, idx, needed, data, result, out, consumed, lengths, stream, pending, dropped,
      call, sessions, turns>>

codecVars == <<args, packed, buf, unpacked>>

vars ==
    <<fmt, ns, pc, idx, needed, data, result, out, consumed, lengths, stream, pending,
      dropped, call, sessions, turns, args, packed, buf, unpacked>>

\* all sequences over S of length at most n
RECURSIVE SeqsUpTo(_, _)
SeqsUpTo(S, n) ==
    IF n = 0 THEN {<<>>}
    ELSE LET shorter == SeqsUpTo(S, n - 1) IN
         shorter \cup {Append(q, x) : q \in {r \in shorter : Len(r) = n - 1}, x \in S}

\* the byte values a caller delivers: 255 reads as -1 in a signed length field
StreamBytes == {0, 1, 2, 255}

\* the formats decode sessions are run on
SessionFormats ==
    { <<>>,
      <<"b", "$">>,
      <<"b", "$", "b">>,
      <<"b", "$", "B", "$">>,
      <<"x", "B", "$", "h">>,
      <<"2", "b">>,
      <<"<", "h", "$">>,
      <<"0", "b", "$">>,
      <<"b", "$", "0", "b", "$">> }

NoCall == [status |-> "none", bytes |-> <<>>]

NoUnpack == [status |-> "none", vals |-> <<>>]

InitCodecIdle ==
    /\ args = <<>>
    /\ packed = NoCall
    /\ buf = <<>>
    /\ unpacked = NoUnpack

NoSessionCall == [op |-> "none", chunk |-> <<>>]

NoTurns == [last |-> 0, switches |-> 0]

InitSessionIdle ==
    /\ pc = "none"
    /\ idx = 0
    /\ needed = 0
    /\ data = <<>>
    /\ result = <<>>
    /\ out = NoOut
    /\ consumed = <<>>
    /\ lengths = <<>>
    /\ dropped = <<>>
    /\ call = NoSessionCall
    /\ sessions = <<>>
    /\ turns = NoTurns

\* a NetStruct has been constructed and a caller holds a byte stream
Init ==
    /\ fmt \in {Bytes(f) : f \in SessionFormats}
    /\ ns = NetStruct(fmt)
    /\ ns.status = "ok"
    /\ stream \in SeqsUpTo(StreamBytes, MaxStream)
    /\ pending = stream
    /\ InitSessionIdle
    /\ InitCodecIdle

Gen == Frame(pc, idx, needed, data, result, out, consumed, lengths)

SetGen(f) ==
    /\ pc' = f.pc
    /\ idx' = f.idx
    /\ needed' = f.needed
    /\ data' = f.data
    /\ result' = f.result
    /\ out' = f.out
    /\ consumed' = f.consumed
    /\ lengths' = f.lengths

\* it = ns.iter_unpack(initial), initial the first n bytes of the stream
Begin(n) ==
    /\ pc = "none"
    /\ n <= Len(pending)
    /\ SetGen(IterUnpack(SubSeq(pending, 1, n)))
    /\ pending' = SubSeq(pending, n + 1, Len(pending))
    /\ call' = [op |-> "iter_unpack", chunk |-> SubSeq(pending, 1, n)]
    /\ UNCHANGED <<fmt, ns, stream, dropped, sessions, turns>>
    /\ UNCHANGED codecVars

\* it.next()
NextCall ==
    /\ pc # "none"
    /\ SetGen(Resume(ns.pairs, Gen, FALSE, <<>>))
    /\ call' = [op |-> "next", chunk |-> <<>>]
    /\ UNCHANGED <<fmt, ns, stream, pending, dropped, sessions, turns>>
    /\ UNCHANGED codecVars

\* it.send(chunk), chunk the next n bytes of the stream
Send(n) ==
    /\ pc # "none"
    /\ n <= Len(pending)
    /\ LET chunk == SubSeq(pending, 1, n)
           f == Resume(ns.pairs, Gen, TRUE, chunk) IN
       /\ SetGen(f)
       /\ call' = [op |-> "send", chunk |-> chunk]
       /\ IF pc = "new"
          THEN UNCHANGED <<pending, dropped>>
          ELSE /\ pending' = SubSeq(pending, n + 1, Len(pending))
               /\ dropped' = IF pc \in {"fixed", "string"} THEN dropped ELSE dropped \o chunk
    /\ UNCHANGED <<fmt, ns, stream, sessions, turns>>
    /\ UNCHANGED codecVars

\* ns.unpack(stream), before any session is created
UnpackCall ==
    /\ pc = "none"
    /\ unpacked = NoUnpack
    /\ buf' = stream
    /\ unpacked' = Unpack(ns, stream)
    /\ UNCHANGED <<fmt, ns, args, packed>>
    /\ UNCHANGED sessionVars

Next ==
    \/ \E n \in 0..MaxChunk : Begin(n)
    \/ NextCall
    \/ \E n \in 0..MaxChunk : Send(n)
    \/ UnpackCall

Spec == Init /\ [][Next]_vars

\* ------------------------------------------------------------------------
\* pack and unpack called on one NetStruct
\* ------------------------------------------------------------------------
\* the formats values are packed with
CodecFormats ==
    { <<>>,
      <<"2", "b">>,
      <<"b", "$">>,
      <<"b", "$", "h">>,
      <<"B", "h", "$">>,
      <<"x", "b">>,
      <<"x", "b", "$">>,
      <<"<", "H", "$", "b">> }

\* the values a caller hands to pack
PackValues ==
    {IntVal(n) : n \in {-1, 0, 5}} \cup {StrVal(b) : b \in SeqsUpTo({7, 8}, MaxStr)}

RECURSIVE SumCounts(_)
SumCounts(pairs) == IF pairs = <<>> THEN 0 ELSE pairs[1].count + SumCounts(Tail(pairs))

InitCodec ==
    /\ fmt \in {Bytes(f) : f \in CodecFormats}
    /\ ns = NetStruct(fmt)
    /\ ns.status = "ok"
    /\ args \in SeqsUpTo(PackValues, SumCounts(ns.pairs) + MaxExtra)
    /\ packed = NoCall
    /\ buf = <<>>
    /\ unpacked = NoUnpack
    /\ stream = <<>>
    /\ pending = <<>>
    /\ InitSessionIdle

\* packed = ns.pack(*args)
PackCall ==
    /\ packed = NoCall
    /\ packed' = Pack(ns, args)
    /\ UNCHANGED <<fmt, ns, args, buf, unpacked>>
    /\ UNCHANGED sessionVars

\* ns.unpack(packed)
UnpackPacked ==
    /\ packed.status = "ok"
    /\ unpacked = NoUnpack
    /\ buf' = packed.bytes
    /\ unpacked' = Unpack(ns, packed.bytes)
    /\ UNCHANGED <<fmt, ns, args, packed>>
    /\ UNCHANGED sessionVars

NextCodec ==
    \/ PackCall
    \/ UnpackPacked

SpecCodec == InitCodec /\ [][NextCodec]_vars

\* ------------------------------------------------------------------------
\* two generators created from one NetStruct, called in any order
\* ------------------------------------------------------------------------
PairFormats == { <<"b", "$">>, <<"2", "b">> }

\* the chunks the callers send
PairChunks == { <<1>>, <<2>> }

\* the values packed with the shared NetStruct
PairArgs == { <<StrVal(<<7, 8>>)>>, <<IntVal(0), IntVal(5)>> }

InitPair ==
    /\ fmt \in {Bytes(f) : f \in PairFormats}
    /\ ns = NetStruct(fmt)
    /\ ns.status = "ok"
    /\ stream = <<>>
    /\ pending = <<>>
    /\ InitSessionIdle
    /\ args \in {a \in PairArgs : Len(a) = SumCounts(ns.pairs)}
    /\ packed = NoCall
    /\ buf = <<>>
    /\ unpacked = NoUnpack

\* sessions.append(ns.iter_unpack())
CreateSession ==
    /\ Len(sessions) < 2
    /\ sessions' = Append(sessions, [gen |-> IterUnpack(<<>>), calls |-> <<>>, outs |-> <<>>])
    /\ UNCHANGED <<fmt, ns, pc, idx, needed, data, result, out, consumed, lengths, stream,
                   pending, dropped, call, turns>>
    /\ UNCHANGED codecVars

\* a call that also hands its chunk to the other generator
DriveSharedData(s, sent, chunk) ==
    /\ s \in 1..Len(sessions)
    /\ Len(sessions[s].calls) < MaxCalls
    /\ LET g == Resume(ns.pairs, sessions[s].gen, sent, chunk) IN
       sessions' = [t \in 1..Len(sessions) |->
                       IF t = s
                       THEN [gen |-> g,
                             calls |-> Append(sessions[s].calls, [sent |-> sent, chunk |-> chunk]),
                             outs |-> Append(sessions[s].outs, g.out)]
                       ELSE [sessions[t] EXCEPT !.gen.data = @ \o chunk]]
    /\ turns' = [last |-> s,
                 switches |-> IF turns.last \in {0, s} THEN turns.switches
                              ELSE Min(turns.switches + 1, 2)]
    /\ UNCHANGED <<fmt, ns, pc, idx, needed, data, result, out, consumed, lengths, stream,
                   pending, dropped, call>>
    /\ UNCHANGED codecVars

\* sessions[s].next() (sent = FALSE) or sessions[s].send(chunk)
Drive(s, sent, chunk) ==
    /\ s \in 1..Len(sessions)
    /\ Len(sessions[s].calls) < MaxCalls
    /\ LET g == Resume(ns.pairs, sessions[s].gen, sent, chunk) IN
       sessions' = [sessions EXCEPT
                       ![s] = [gen |-> g,
                               calls |-> Append(sessions[s].calls, [sent |-> sent, chunk |-> chunk]),
                               outs |-> Append(sessions[s].outs, g.out)]]
    /\ turns' = [last |-> s,
                 switches |-> IF turns.last \in {0, s} THEN turns.switches
                              ELSE Min(turns.switches + 1, 2)]
    /\ UNCHANGED <<fmt, ns, pc, idx, needed, data, result, out, consumed, lengths, stream,
                   pending, dropped, call>>
    /\ UNCHANGED codecVars

NextPair ==
    \/ CreateSession
    \/ \E s \in 1..2 : Drive(s, FALSE, <<>>)
    \/ \E s \in 1..2 : \E chunk \in PairChunks : Drive(s, TRUE, chunk)
    \/ PackCall
    \/ UnpackPacked

SpecPair == InitPair /\ [][NextPair]_vars

\* ------------------------------------------------------------------------
\* What a format's values and records are
\* ------------------------------------------------------------------------
\* the value slots of a struct, in order
RECURSIVE Slots(_)
Slots(items) ==
    IF items = <<>> THEN <<>>
    ELSE IF items[1].code = "x" THEN Slots(Tail(items))
    ELSE <<items[1]>> \o Slots(Tail(items))

\* the value slots of a format: a '$' pair's last slot takes the string
RECURSIVE Signature(_)
Signature(pairs) ==
    IF pairs = <<>> THEN <<>>
    ELSE LET sl == Slots(Expand(pairs[1].st.items)) IN
         (IF pairs[1].sep /\ sl # <<>>
          THEN SubSeq(sl, 1, Len(sl) - 1) \o <<[code |-> "$", rep |-> 1]>>
          ELSE sl) \o Signature(Tail(pairs))

Fits(slot, v) ==
    CASE slot.code = "$" -> v.t = "str"
      [] slot.code = "s" -> v.t = "str" /\ Len(v.s) = slot.rep
      [] slot.code = "c" -> v.t = "str" /\ Len(v.s) = 1
      [] OTHER -> v.t = "int" /\ IntInRange(slot.code, v.i)

\* the values match the format's arity and types
Matches(pairs, vals) ==
    LET sig == Signature(pairs) IN
    /\ Len(vals) = Len(sig)
    /\ \A k \in 1..Len(sig) : Fits(sig[k], vals[k])

\* ------------------------------------------------------------------------
\* Properties of decode sessions (Spec)
\* ------------------------------------------------------------------------
\* Where the record at the start of bytes ends, read off the wire layout:
\* per pair the fixed layout, then as many bytes as its last field says.
\* kind "record": a whole record is there, ending at byte end; "short": bytes
\* are missing; "malformed": a length field is negative or not there.
RECURSIVE Scan(_, _, _)
Scan(pairs, bytes, pos) ==
    IF pairs = <<>> THEN [kind |-> "record", end |-> pos]
    ELSE LET p == pairs[1]
             fixedEnd == pos + p.st.size IN
         IF fixedEnd > Len(bytes) THEN [kind |-> "short", end |-> pos]
         ELSE IF ~p.sep THEN Scan(Tail(pairs), bytes, fixedEnd)
         ELSE LET fields == StructUnpack(p.st, SubSeq(bytes, pos + 1, fixedEnd))
                  length == fields[Len(fields)].i IN
              IF fields = <<>> THEN [kind |-> "malformed", end |-> fixedEnd]
              ELSE IF length < 0 THEN [kind |-> "malformed", end |-> fixedEnd]
              ELSE IF fixedEnd + length > Len(bytes) THEN [kind |-> "short", end |-> fixedEnd]
              ELSE Scan(Tail(pairs), bytes, fixedEnd + length)

\* C1: incremental equivalence: when the stream starts with a complete
\* record, a session fed the stream in chunks cannot stay suspended once all
\* of it is handed over, reports the value list that one-shot unpack of the
\* whole stream returns, and leaves the bytes beyond the record's end (its
\* leftover followed by what was not stored or not yet handed over).
C1_IncrementalEquivalence ==
    LET rec == Scan(ns.pairs, stream, 0) IN
    rec.kind = "record"
        => /\ pc \in {"fixed", "string"} => pending # <<>>
           /\ pc = "done" => /\ Unpack(ns, stream).status = "ok"
                             /\ out.vals = Unpack(ns, stream).vals
                             /\ data \o pending = SubSeq(stream, rec.end + 1, Len(stream))
           /\ pc = "left" =>
                  out.bytes \o dropped \o pending = SubSeq(stream, rec.end + 1, Len(stream))

\* C1 witness: a record with a non-empty string, handed over in more than
\* one piece, is done and bytes of the stream lie beyond it
C1_Witness ==
    /\ Scan(ns.pairs, stream, 0).kind = "record"
    /\ pc = "done"
    /\ lengths # <<>>
    /\ lengths[1] > 0
    /\ Len(consumed) > MaxChunk
    /\ data \o pending # <<>>

\* C3: surplus preservation: at Done the bytes sliced off by the record
\* followed by the bytes held are exactly the bytes handed over, in order; the
\* call after Done returns exactly the bytes held.
C3_SurplusPreserved ==
    /\ pc = "done" => /\ dropped = <<>>
                      /\ consumed \o data \o pending = stream
    /\ pc = "left" => /\ out.bytes = data
                      /\ consumed \o out.bytes \o dropped \o pending = stream

\* C3 witness: a record completed over several calls hands back a surplus
C3_Witness ==
    /\ pc = "left"
    /\ out.k = "left"
    /\ out.bytes # <<>>
    /\ Len(result) >= 2
    /\ Len(consumed) >= 3

\* C4: a need-more outcome always carries a strictly positive number.
C4_NeedMorePositive == out.k = "need" => out.n > 0

\* C4 witness: the session asks for more after popping a length that is
\* zero or negative
C4_Witness ==
    /\ out.k = "need"
    /\ lengths # <<>>
    /\ lengths[Len(lengths)] <= 0

\* C6: a session that pops a negative string length fails: the call raises,
\* the generator is finished, and no value list or leftover is handed out.
C6_NegativeLengthFails ==
    (\E k \in 1..Len(lengths) : lengths[k] < 0)
        => /\ pc = "spent"
           /\ out.k \notin {"need", "done", "left"}

RECURSIVE SizesAfter(_, _)
SizesAfter(pairs, i) ==
    IF i >= Len(pairs) THEN 0 ELSE pairs[i + 1].st.size + SizesAfter(pairs, i + 1)

\* C8: the need-more number is what is missing to finish the whole record:
\* the shortfall of the current phase plus the struct sizes of all later
\* pairs.
C8_NeedMoreWholeRecord ==
    out.k = "need"
        => out.n = (IF pc = "fixed" THEN ns.pairs[idx].st.size ELSE lengths[Len(lengths)])
                   - Len(data) + SizesAfter(ns.pairs, idx)

\* C10: one-shot unpack fails on a buffer shorter than the minimum size, and
\* on a buffer too short for the record it starts; on a buffer that starts
\* with a complete record it returns all of that record's values whatever
\* bytes follow.
C10_UnpackBounds ==
    LET rec == Scan(ns.pairs, buf, 0) IN
    unpacked.status # "none"
        => /\ Len(buf) < ns.minsize => unpacked.status = "error"
           /\ rec.kind = "short" => unpacked.status = "error"
           /\ unpacked.status = "error" => unpacked.vals = <<>>
           /\ rec.kind = "record"
                  => /\ unpacked.status = "ok"
                     /\ unpacked = Unpack(ns, SubSeq(buf, 1, rec.end))
                     /\ Len(unpacked.vals) = Len(Signature(ns.pairs))

\* C10 witness: a buffer holding a record with a string and bytes after it
\* has been unpacked
C10_Witness ==
    /\ unpacked.status = "ok"
    /\ Scan(ns.pairs, buf, 0).kind = "record"
    /\ Scan(ns.pairs, buf, 0).end < Len(buf)
    /\ \E k \in 1..Len(unpacked.vals) : unpacked.vals[k].s # <<>>

\* ------------------------------------------------------------------------
\* Properties of pack and unpack (SpecCodec)
\* ------------------------------------------------------------------------
\* C2: round trip: values that match the format's arity and types are packed,
\* and unpacking the packed bytes returns exactly those values.
C2_RoundTrip ==
    Matches(ns.pairs, args)
        => /\ packed.status # "none" => packed.status = "ok"
           /\ unpacked.status # "none" => (unpacked.status = "ok" /\ unpacked.vals = args)

\* C5: arity enforcement: pack never returns bytes when the number of values
\* differs from the number the format consumes.
C5_ArityEnforced ==
    (packed.status # "none" /\ Len(args) # Len(Signature(ns.pairs)))
        => packed.status # "ok"

\* the bytes of a record: per pair the fixed layout, its last field holding
\* the string's length, then the string's bytes
RECURSIVE Wire(_, _)
Wire(pairs, vals) ==
    IF pairs = <<>> THEN <<>>
    ELSE LET p == pairs[1]
             nv == ItemsValues(p.st.items) IN
         IF p.sep
         THEN StructPack(p.st, SubSeq(vals, 1, nv - 1) \o <<IntVal(Len(vals[nv].s))>>).bytes
              \o vals[nv].s
              \o Wire(Tail(pairs), SubSeq(vals, nv + 1, Len(vals)))
         ELSE StructPack(p.st, SubSeq(vals, 1, Min(nv, Len(vals)))).bytes
              \o Wire(Tail(pairs), SubSeq(vals, nv + 1, Len(vals)))

\* C9: what pack returns is, pair by pair, the fixed layout with the string's
\* own length in its last field, followed by the string's bytes and nothing
\* else.
C9_PackLayout ==
    packed.status = "ok" => packed.bytes = Wire(ns.pairs, args)

\* C9 witness: a string between two fixed layouts has been packed
C9_Witness ==
    /\ packed.status = "ok"
    /\ fmt.chars = <<"b", "$", "h">>
    /\ args = <<StrVal(<<7, 8>>), IntVal(5)>>
    /\ packed.bytes = <<2, 7, 8, 0, 5>>

\* ------------------------------------------------------------------------
\* NetStruct() called on one object
\* ------------------------------------------------------------------------
\* the characters byte-string formats are made of
FormatChars == {"b", "H", "x", "s", "c", "f", "?", "$", "2", "0", "!", "<", " ", "z"}

\* the objects handed to NetStruct(): byte strings, text strings, and other
\* objects (chars = <<>> for a falsy one such as 0 or None)
CompileInputs ==
    {Bytes(f) : f \in SeqsUpTo(FormatChars, MaxFormat)
                      \cup {<<"i", "h", "$", "5", "b">>, <<"i", "5", "$">>,
                            <<"b", "$", "5", "i">>, <<"4", "b">>}}
    \cup {[kind |-> "text", chars |-> f] : f \in {<<>>, <<"i", "b">>, <<"b", "$">>, <<"$">>}}
    \cup {[kind |-> "other", chars |-> f] : f \in {<<>>, <<"4", "2">>}}

NotCompiled == [status |-> "none", pairs |-> <<>>, minsize |-> 0, initsize |-> 0]

InitCompile ==
    /\ fmt \in CompileInputs
    /\ ns = NotCompiled
    /\ stream = <<>>
    /\ pending = <<>>
    /\ InitSessionIdle
    /\ InitCodecIdle

\* ns = NetStruct(fmt)
Compile ==
    /\ ns = NotCompiled
    /\ ns' = NetStruct(fmt)
    /\ UNCHANGED fmt
    /\ UNCHANGED sessionVars
    /\ UNCHANGED codecVars

NextCompile == Compile

SpecCompile == InitCompile /\ [][NextCompile]_vars

\* ------------------------------------------------------------------------
\* Properties of NetStruct() (SpecCompile)
\* ------------------------------------------------------------------------
IntegerCodes == {"b", "B", "h", "H", "i", "I", "l", "L", "q", "Q"}

\* some '$' of the format does not directly follow an integer code
HasStrayDollar(chars) ==
    \E k \in 1..Len(chars) :
        chars[k] = "$" /\ (k = 1 \/ chars[k - 1] \notin IntegerCodes)

C12_NonBytesRejected ==
    (ns # NotCompiled /\ fmt.kind # "bytes") => ns.status = "TypeError"

\* the characters of a format after its byte-order character
Body(chars) ==
    IF chars # <<>> /\ chars[1] \in ByteOrderChars THEN Tail(chars) ELSE chars

\* C15: for a compiled format minimum_size is the sum of the struct sizes of
\* all pairs and initial_size the struct size of the first pair; hence
\* initial_size <= minimum_size, the two are equal when the format has no
\* '$', and both are 0 for the empty format.
C15_Sizes ==
    ns.status = "ok"
        => /\ ns.minsize = Struct("!", Body(SelectSeq(fmt.chars, LAMBDA c : c # "$"))).size
           /\ ns.initsize = IF ns.pairs = <<>> THEN 0 ELSE ns.pairs[1].st.size
           /\ ns.initsize <= ns.minsize
           /\ Len(ns.pairs) >= 2 => ns.minsize >= ns.pairs[1].st.size + ns.pairs[2].st.size
           /\ (\A k \in 1..Len(fmt.chars) : fmt.chars[k] # "$") => ns.initsize = ns.minsize
           /\ fmt.chars = <<>> => (ns.minsize = 0 /\ ns.initsize = 0 /\ ns.pairs = <<>>)
           /\ fmt.chars = <<"i", "h", "$", "5", "b">>
                  => (Len(ns.pairs) = 2 /\ ns.minsize = 11 /\ ns.initsize = 6)

\* C15 witness: ih$5b has been compiled
C15_Witness ==
    /\ fmt = Bytes(<<"i", "h", "$", "5", "b">>)
    /\ ns.status = "ok"
    /\ ns.minsize = 11

\* C18: the count recorded with each pair is the number of values its struct
\* packs and unpacks.
C18_CountIsValueCount ==
    ns.status = "ok"
        => \A k \in 1..Len(ns.pairs) :
               ns.pairs[k].count = ItemsValues(ns.pairs[k].st.items)

\* C20: on a byte string NetStruct() either returns or raises struct.error,
\* and a format that is only a byte-order character compiles like the empty
\* format.
C20_CompileOutcomes ==
    (ns # NotCompiled /\ fmt.kind = "bytes")
        => /\ ns.status \in {"ok", "error"}
           /\ (Len(fmt.chars) = 1 /\ fmt.chars[1] \in ByteOrderChars)
                  => ns = [status |-> "ok", pairs |-> <<>>, minsize |-> 0, initsize |-> 0]

\* ------------------------------------------------------------------------
\* Properties of a session's life (Spec)
\* ------------------------------------------------------------------------
Suspended == {"fixed", "string"}

\* C13: session lifecycle ordering: a need-more number is yielded only by a
\* generator that has not yet yielded its result; the result is yielded once,
\* on leaving the loops, and carries the value list; the call after it
\* returns the leftover bytes; every later call raises StopIteration.
C13_Lifecycle ==
    [][/\ out'.k = "need" => (pc \in {"new"} \cup Suspended /\ pc' \in Suspended)
       /\ pc' \in Suspended => out'.k = "need"
       /\ out'.k = "done" => /\ pc \in {"new"} \cup Suspended
                             /\ pc' = "done"
                             /\ out'.vals = result'
       /\ pc = "done" => (pc' = "left" /\ out' = Leftover(data))
       /\ out'.k = "left" => pc = "done"
       /\ pc \in {"left", "spent"} => (pc' = "spent" /\ out' = Raised("StopIteration"))
      ]_vars

\* C13 witness: a b$b session has yielded numbers, its result and its
\* leftover, and a further call has raised StopIteration
C13_Witness ==
    /\ fmt = Bytes(<<"b", "$", "b">>)
    /\ pc = "spent"
    /\ out = Raised("StopIteration")
    /\ Len(result) = 2
    /\ Len(consumed) >= 3

\* C14: next() or send(b"") on a suspended generator changes none of its
\* locals and yields the same number again.
C14_EmptyFeedNoOp ==
    [][(pc \in Suspended /\ call'.op \in {"next", "send"} /\ call'.chunk = <<>>)
           => /\ pc' = pc
              /\ idx' = idx
              /\ needed' = needed
              /\ data' = data
              /\ result' = result
              /\ consumed' = consumed
              /\ lengths' = lengths
              /\ out' = out
              /\ out.k = "need"
      ]_vars

\* C14 witness: send(b"") has returned to a generator suspended in the string
\* loop that holds bytes of the string
C14_Witness ==
    /\ pc = "string"
    /\ call = [op |-> "send", chunk |-> <<>>]
    /\ data # <<>>
    /\ out.k = "need"

\* (idx2, pc2) is a later phase than (idx1, pc1)
LaterPhase(idx1, pc1, idx2, pc2) ==
    \/ idx2 > idx1
    \/ idx2 = idx1 /\ pc1 = "fixed" /\ pc2 = "string"

\* C17: progress: send() of a non-empty chunk to a suspended generator ends
\* with the result, or with a suspension in a later phase, or in the same
\* phase with a smaller positive number; the phase never moves back.
C17_Progress ==
    [][(pc \in Suspended /\ call'.op = "send" /\ call'.chunk # <<>>)
           => \/ pc' = "done" /\ out'.k = "done"
              \/ pc' \in Suspended /\ LaterPhase(idx, pc, idx', pc')
              \/ /\ pc' = pc
                 /\ idx' = idx
                 /\ out'.n < out.n
                 /\ out'.n >= 1
      ]_vars

\* C19: every pair of a compiled format that ends in '$' has a struct whose
\* last item is an integer code with a non-zero count, and a generator never
\* dies in result.pop() or on the popped value.
C19_LengthIsOwnInteger ==
    /\ ns.status = "ok"
           => \A k \in 1..Len(ns.pairs) :
                  ns.pairs[k].sep
                      => LET items == ns.pairs[k].st.items IN
                         /\ items # <<>>
                         /\ items[Len(items)].code \in IntegerCodes
                         /\ items[Len(items)].rep >= 1
    /\ pc = "spent" => out = Raised("StopIteration")

\* ------------------------------------------------------------------------
\* Properties of generators that share a NetStruct (SpecPair)
\* ------------------------------------------------------------------------
\* what the calls return when made, in this order, on a generator nobody else
\* is running beside
RECURSIVE AloneOuts(_, _, _)
AloneOuts(pairs, f, calls) ==
    IF calls = <<>> THEN <<>>
    ELSE LET g == Resume(pairs, f, calls[1].sent, calls[1].chunk) IN
         <<g.out>> \o AloneOuts(pairs, g, Tail(calls))

\* C16: session independence: whatever the order in which two generators of
\* one NetStruct are called, and whether pack or unpack ran in between, each
\* has returned what its own calls return on a generator run alone, and the
\* NetStruct is as it was compiled.
C16_Independence ==
    /\ ns = NetStruct(fmt)
    /\ \A s \in 1..Len(sessions) :
           sessions[s].outs = AloneOuts(ns.pairs, IterUnpack(<<>>), sessions[s].calls)

\* C16 witness: the caller went back and forth between two generators, both
\* have yielded their results, different ones, and pack has run
C16_Witness ==
    /\ Len(sessions) = 2
    /\ turns.switches >= 2
    /\ sessions[1].gen.pc = "done"
    /\ sessions[2].gen.pc = "done"
    /\ sessions[1].gen.out.vals # sessions[2].gen.out.vals
    /\ packed.status = "ok"

====
